---- MODULE Spec2Model ----
(***************************************************************************)
(* The MinHook-based HardHook of the overlay (overlay/HardHook_minhook.cpp) *)
(* as a state machine.  Every HardHook object is driven by one thread; the  *)
(* threads interleave at the calls into the MinHook backend, which is the   *)
(* only state they share besides minhook_init_once.                         *)
(***************************************************************************)
EXTENDS Integers, Sequences, FiniteSets, TLC

\* ------------------------------------------------------------- bounds
NumHooks == 2
NumFuncs == 2
\* the number of HardHook operations (constructions included) a run may start
MaxOps == 4

\* ---------------------------------------------------------- addresses
NULL == 0
Hooks == 1 .. NumHooks
\* addresses of the hookable functions of the host process
Funcs == 1 .. NumFuncs
\* the replacement function the owner of hook h installs
ReplacementOf(h) == NumFuncs + h
\* the trampoline the backend builds for target f
Trampoline(f) == NumFuncs + NumHooks + f
\* a pointer value that is no function, no trampoline and not NULL
Wild == 2 * NumFuncs + NumHooks + 1
\* what an uninitialised pointer member may hold
Indeterminate == {NULL, Wild}

\* one COM object; slot k of its dispatch table holds VTable[k + 1]
IUnknownObj == "unkn"
VTable == [k \in 1 .. NumFuncs |-> NumFuncs + 1 - k]
Slots == 0 .. (NumFuncs - 1)

\* ------------------------------------------------------------ MH_STATUS
MH_UNKNOWN == "unknown"
MH_OK == "ok"
MH_ERROR_ALREADY_INITIALIZED == "already-initialized"
MH_ERROR_NOT_INITIALIZED == "not-initialized"
MH_ERROR_ALREADY_CREATED == "already-created"
MH_ERROR_NOT_CREATED == "not-created"
MH_ERROR_ENABLED == "enabled"
MH_ERROR_DISABLED == "disabled"
MH_ERROR_NOT_EXECUTABLE == "not-executable"
MH_ERROR_UNSUPPORTED_FUNCTION == "unsupported-function"
MH_ERROR_MEMORY_ALLOC == "memory-alloc-failure"
MH_ERROR_MEMORY_PROTECT == "memory-protect-failure"

minhook_status_string(st) ==
    CASE st = MH_UNKNOWN -> "MH_UNKNOWN"
      [] st = MH_OK -> "MH_OK"
      [] st = MH_ERROR_ALREADY_INITIALIZED -> "MH_ERROR_ALREADY_INITIALIZED"
      [] st = MH_ERROR_NOT_INITIALIZED -> "MH_ERROR_NOT_INITIALIZED"
      [] st = MH_ERROR_ALREADY_CREATED -> "MH_ERROR_ALREADY_CREATED"
      [] st = MH_ERROR_NOT_CREATED -> "MH_ERROR_NOT_CREATED"
      [] st = MH_ERROR_ENABLED -> "MH_ERROR_ENABLED"
      [] st = MH_ERROR_DISABLED -> "MH_ERROR_DISABLED"
      [] st = MH_ERROR_NOT_EXECUTABLE -> "MH_ERROR_NOT_EXECUTABLE"
      [] st = MH_ERROR_UNSUPPORTED_FUNCTION -> "MH_ERROR_UNSUPPORTED_FUNCTION"
      [] st = MH_ERROR_MEMORY_ALLOC -> "MH_ERROR_MEMORY_ALLOC"
      [] st = MH_ERROR_MEMORY_PROTECT -> "MH_ERROR_MEMORY_PROTECT"
      [] OTHER -> "(unknown)"

\* ------------------------------------------------------------ diagnostics
\* fods(format, ...): one message of the diagnostic sink
fods(fmt, args) == [fmt |-> fmt, args |-> args]

FmtCreateFailed == "HardHook: setup failed, MH_CreateHook returned %s"
FmtEnableFailed == "HardHook: setup failed, MH_EnableHook returned %s"
FmtSetupInterface == "HardHook: setupInterface: Replacing %p function #%ld"
FmtInjectFailed == "HardHook: inject() failed: MH_EnableHook returned %s"
FmtRestoreFailed == "HardHook: restore() failed: MH_DisableHook returned %s"
FmtPrint == "HardHook: unused 'print' method called for MinHook-based HardHook"
FmtCheck == "HardHook: unused 'check' method called for MinHook-based HardHook"

\* the messages of a call site that logs exactly when the status is not MH_OK
Report(fmt, st) ==
    IF st # MH_OK THEN << fods(fmt, << minhook_status_string(st) >>) >> ELSE << >>

VARIABLES
    minhook_init_once,  \* the static init-once flag
    m_func,             \* HardHook::m_func of each hook
    m_replacement,      \* HardHook::m_replacement of each hook
    call,               \* HardHook::call of each hook, the trampoline field
    pc,                 \* where the thread driving each hook is
    func,               \* parameter func of the constructor / setup in progress
    replacement,        \* parameter replacement of the constructor / setup in progress
    status,             \* local status of the setup in progress
    mhInitialized,      \* backend: MH_Initialize has succeeded
    mhAllHooks,         \* backend: "yes" if this build takes a NULL target as MH_ALL_HOOKS,
                        \* "no" if not, "unseen" while no call has shown which
    mh,                 \* backend: the hook entry of each function
    initCalls,          \* number of invocations of MH_Initialize
    ops,                \* number of HardHook operations started so far
    installed,          \* history: a setup of the hook completed with both steps ok, no reset since
    installedOn,        \* history: the func of the last such setup, NULL when there is none
    vtbl,               \* the dispatch table of IUnknownObj, ptr[0] in setupInterface
    orphaned,           \* history: the targets a hook was installed on when it was reset
    op,                 \* the HardHook operation the last step belongs to
    mhCall,             \* the backend call the last step made
    ods                 \* the diagnostics the last step emitted

hookVars == << m_func, m_replacement, call >>
backendVars == << mhInitialized, mh, initCalls >>
vars == << minhook_init_once, m_func, m_replacement, call, pc, func, replacement,
           status, mhInitialized, mhAllHooks, mh, initCalls, ops, installed, installedOn, vtbl, orphaned,
           op, mhCall, ods >>

\* ------------------------------------------------------------- backend
NoEntry == [created |-> FALSE, detour |-> NULL, trampoline |-> NULL, enabled |-> FALSE]

NoCall == [fn |-> "none", target |-> NULL, status |-> MH_OK]
BackendCall(fn, target, st) == [fn |-> fn, target |-> target, status |-> st]

\* MH_Initialize: the possible (status, initialized) results
MH_Initialize ==
    IF mhInitialized
    THEN {[status |-> MH_ERROR_ALREADY_INITIALIZED, initialized |-> TRUE]}
    ELSE {[status |-> MH_OK, initialized |-> TRUE],
          [status |-> MH_ERROR_MEMORY_ALLOC, initialized |-> FALSE]}

\* MH_CreateHook(pTarget, pDetour, ppOriginal): status, new registry, and the
\* value left in *ppOriginal, which is written on success only
MH_CreateHook(pTarget, pDetour, original) ==
    IF ~mhInitialized
    THEN [status |-> MH_ERROR_NOT_INITIALIZED, mh |-> mh, original |-> original]
    ELSE IF mh[pTarget].created
    THEN [status |-> MH_ERROR_ALREADY_CREATED, mh |-> mh, original |-> original]
    ELSE [status |-> MH_OK,
          mh |-> [mh EXCEPT ![pTarget] = [created |-> TRUE, detour |-> pDetour,
                                          trampoline |-> Trampoline(pTarget),
                                          enabled |-> FALSE]],
          original |-> Trampoline(pTarget)]

\* MH_EnableHook (enable = TRUE) and MH_DisableHook (enable = FALSE): the
\* possible (status, new registry, backend flavour) results.  A NULL target is
\* MH_ALL_HOOKS in the backend builds that know it and an unknown target in
\* the others; which build this is shows at the first such call.
EnableHook(pTarget, enable) ==
    IF ~mhInitialized
    THEN {[status |-> MH_ERROR_NOT_INITIALIZED, mh |-> mh, allHooks |-> mhAllHooks]}
    ELSE IF pTarget = NULL
    THEN {IF flavour = "yes"
          THEN [status |-> MH_OK,
                mh |-> [f \in Funcs |-> IF mh[f].created
                                        THEN [mh[f] EXCEPT !.enabled = enable]
                                        ELSE mh[f]],
                allHooks |-> flavour]
          ELSE [status |-> MH_ERROR_NOT_CREATED, mh |-> mh, allHooks |-> flavour] :
             flavour \in IF mhAllHooks = "unseen" THEN {"yes", "no"} ELSE {mhAllHooks}}
    ELSE IF ~mh[pTarget].created
    THEN {[status |-> MH_ERROR_NOT_CREATED, mh |-> mh, allHooks |-> mhAllHooks]}
    ELSE IF mh[pTarget].enabled = enable
    THEN {[status |-> IF enable THEN MH_ERROR_ENABLED ELSE MH_ERROR_DISABLED,
           mh |-> mh, allHooks |-> mhAllHooks]}
    ELSE {[status |-> MH_OK, mh |-> [mh EXCEPT ![pTarget].enabled = enable],
           allHooks |-> mhAllHooks]}

MH_EnableHook(pTarget) == EnableHook(pTarget, TRUE)
MH_DisableHook(pTarget) == EnableHook(pTarget, FALSE)

\* ---------------------------------------------------------------- Init
Init ==
    /\ minhook_init_once = 0
    /\ m_func = [h \in Hooks |-> NULL]
    /\ m_replacement = [h \in Hooks |-> NULL]
    /\ call = [h \in Hooks |-> NULL]
    /\ pc = [h \in Hooks |-> "new"]
    /\ func = [h \in Hooks |-> NULL]
    /\ replacement = [h \in Hooks |-> NULL]
    /\ status = [h \in Hooks |-> MH_OK]
    /\ mhInitialized = FALSE
    /\ mhAllHooks = "unseen"
    /\ vtbl = VTable
    /\ orphaned = {}
    /\ mh = [f \in Funcs |-> NoEntry]
    /\ initCalls = 0
    /\ ops = 0
    /\ installed = [h \in Hooks |-> FALSE]
    /\ installedOn = [h \in Hooks |-> NULL]
    /\ op = [name |-> "none", force |-> FALSE]
    /\ mhCall = NoCall
    /\ ods = << >>

Op(name, force) == [name |-> name, force |-> force]
\* a new operation may start on a constructed hook that is in no operation
Idle(h) == pc[h] = "idle" /\ ops < MaxOps
\* hook h is not constructed yet.  Hook objects are interchangeable, so they
\* are numbered in the order their constructors start.
Unconstructed(h) == pc[h] = "new" /\ ops < MaxOps /\ \A g \in Hooks : g < h => pc[g] # "new"

\* ------------------------------------------------------- constructors
\* the constructor after EnsureMinHookInitialized has returned: the default
\* constructor is done (two = FALSE); the two-argument one assigns m_func and
\* m_replacement and calls setup(func, replacement)
AfterEnsure(h, two, f, r) ==
    IF two
    THEN /\ m_func' = [m_func EXCEPT ![h] = f]
         /\ m_replacement' = [m_replacement EXCEPT ![h] = r]
         /\ pc' = [pc EXCEPT ![h] = "create"]
    ELSE /\ pc' = [pc EXCEPT ![h] = "idle"]
         /\ UNCHANGED << m_func, m_replacement >>

\* EnsureMinHookInitialized with the guard lost: MH_Initialize on every call
EnsureMinHookInitialized_NoGuard(h, two, f, r) ==
    /\ minhook_init_once' = 1
    /\ pc' = [pc EXCEPT ![h] = IF two THEN "init_2" ELSE "init_d"]
    /\ UNCHANGED << m_func, m_replacement >>

\* EnsureMinHookInitialized: the InterlockedCompareExchange.  The winner goes
\* on to MH_Initialize; a loser returns at once.
EnsureMinHookInitialized(h, two, f, r) ==
    IF minhook_init_once = 0
    THEN /\ minhook_init_once' = 1
         /\ pc' = [pc EXCEPT ![h] = IF two THEN "init_2" ELSE "init_d"]
         /\ UNCHANGED << m_func, m_replacement >>
    ELSE /\ UNCHANGED minhook_init_once
         /\ AfterEnsure(h, two, f, r)

\* EnsureMinHookInitialized, the winner: MH_Initialize, its status dropped,
\* and the rest of the constructor up to its next backend call
EnsureMinHookInitialized_init(h) ==
    /\ UNCHANGED << mhAllHooks, vtbl, orphaned >>
    /\ pc[h] \in {"init_d", "init_2"}
    /\ \E res \in MH_Initialize :
          /\ mhInitialized' = res.initialized
          /\ mhCall' = BackendCall("MH_Initialize", NULL, res.status)
    /\ initCalls' = initCalls + 1
    /\ AfterEnsure(h, pc[h] = "init_2", func[h], replacement[h])
    /\ op' = Op("HardHook", FALSE)
    /\ ods' = << >>
    /\ UNCHANGED << minhook_init_once, call, func, replacement, status, mh, ops, installed, installedOn >>

\* HardHook::HardHook(): the initializer list and the compare-exchange of
\* EnsureMinHookInitialized
HardHook_default(h) ==
    /\ UNCHANGED << mhAllHooks, vtbl, orphaned >>
    /\ Unconstructed(h)
    /\ ops' = ops + 1
    /\ call' = [call EXCEPT ![h] = NULL]
    /\ EnsureMinHookInitialized(h, FALSE, NULL, NULL)
    /\ op' = Op("HardHook", FALSE)
    /\ mhCall' = NoCall
    /\ ods' = << >>
    /\ UNCHANGED << func, replacement, status, backendVars, installed, installedOn >>

\* HardHook::HardHook(func, replacement): no initializer list, so call starts
\* indeterminate (m_func and m_replacement are assigned before they are read);
\* then the compare-exchange of EnsureMinHookInitialized
HardHook_two(h, f, r) ==
    /\ UNCHANGED << mhAllHooks, vtbl, orphaned >>
    /\ Unconstructed(h)
    /\ ops' = ops + 1
    /\ \E garbage \in Indeterminate : call' = [call EXCEPT ![h] = garbage]
    /\ func' = [func EXCEPT ![h] = f]
    /\ replacement' = [replacement EXCEPT ![h] = r]
    /\ EnsureMinHookInitialized(h, TRUE, f, r)
    /\ op' = Op("HardHook", FALSE)
    /\ mhCall' = NoCall
    /\ ods' = << >>
    /\ UNCHANGED << status, backendVars, installed, installedOn >>

\* ---------------------------------------------------------------- setup
\* setup with the failure of MH_CreateHook not reported
CreateStep_Silent(h, f, r) ==
    LET res == MH_CreateHook(f, r, call[h]) IN
       /\ mh' = res.mh
       /\ call' = [call EXCEPT ![h] = res.original]
       /\ status' = [status EXCEPT ![h] = res.status]
       /\ mhCall' = BackendCall("MH_CreateHook", f, res.status)
       /\ ods' = << >>
       /\ func' = [func EXCEPT ![h] = f]
       /\ replacement' = [replacement EXCEPT ![h] = r]
       /\ pc' = [pc EXCEPT ![h] = "enable"]

\* setup, first half: MH_CreateHook(func, replacement, &call) and its report
CreateStep(h, f, r) ==
    LET res == MH_CreateHook(f, r, call[h]) IN
       /\ mh' = res.mh
       /\ call' = [call EXCEPT ![h] = res.original]
       /\ status' = [status EXCEPT ![h] = res.status]
       /\ mhCall' = BackendCall("MH_CreateHook", f, res.status)
       /\ ods' = Report(FmtCreateFailed, res.status)
       /\ func' = [func EXCEPT ![h] = f]
       /\ replacement' = [replacement EXCEPT ![h] = r]
       /\ pc' = [pc EXCEPT ![h] = "enable"]

\* setup that takes over the trampoline of a redirection that exists already
setup_Adopt(h, f, r) ==
    /\ UNCHANGED << mhAllHooks, vtbl, orphaned >>
    /\ Idle(h)
    /\ ops' = ops + 1
    /\ LET res == MH_CreateHook(f, r, call[h]) IN
          /\ mh' = res.mh
          /\ call' = [call EXCEPT ![h] = IF res.status = MH_ERROR_ALREADY_CREATED
                                         THEN mh[f].trampoline ELSE res.original]
          /\ status' = [status EXCEPT ![h] = res.status]
          /\ mhCall' = BackendCall("MH_CreateHook", f, res.status)
          /\ ods' = Report(FmtCreateFailed, res.status)
          /\ func' = [func EXCEPT ![h] = f]
          /\ replacement' = [replacement EXCEPT ![h] = r]
          /\ pc' = [pc EXCEPT ![h] = "enable"]
    /\ op' = Op("setup", FALSE)
    /\ UNCHANGED << minhook_init_once, m_func, m_replacement, mhInitialized,
                    initCalls, installed, installedOn >>

\* HardHook::setup(func, replacement) called on a constructed hook, up to the
\* return of MH_CreateHook
setup(h, f, r) ==
    /\ UNCHANGED << mhAllHooks, vtbl, orphaned >>
    /\ Idle(h)
    /\ ops' = ops + 1
    /\ CreateStep(h, f, r)
    /\ op' = Op("setup", FALSE)
    /\ UNCHANGED << minhook_init_once, m_func, m_replacement, mhInitialized,
                    initCalls, installed, installedOn >>

\* setup called by the two-argument constructor, up to the return of MH_CreateHook
HardHook_two_setup(h) ==
    /\ UNCHANGED << mhAllHooks, vtbl, orphaned >>
    /\ pc[h] = "create"
    /\ CreateStep(h, func[h], replacement[h])
    /\ op' = Op("setup", FALSE)
    /\ UNCHANGED << minhook_init_once, m_func, m_replacement, mhInitialized,
                    initCalls, ops, installed, installedOn >>

\* setupInterface reading the slot after the one it was given
setupInterface_NextSlot(h, funcoffset, r) ==
    /\ UNCHANGED << mhAllHooks, vtbl, orphaned >>
    /\ Idle(h)
    /\ ops' = ops + 1
    /\ LET f == vtbl[((funcoffset + 1) % NumFuncs) + 1]
           res == MH_CreateHook(f, r, call[h]) IN
          /\ mh' = res.mh
          /\ call' = [call EXCEPT ![h] = res.original]
          /\ status' = [status EXCEPT ![h] = res.status]
          /\ mhCall' = BackendCall("MH_CreateHook", f, res.status)
          /\ ods' = << fods(FmtSetupInterface, << IUnknownObj, funcoffset >>) >>
                       \o Report(FmtCreateFailed, res.status)
          /\ func' = [func EXCEPT ![h] = f]
          /\ replacement' = [replacement EXCEPT ![h] = r]
    /\ pc' = [pc EXCEPT ![h] = "enable"]
    /\ op' = Op("setupInterface", FALSE)
    /\ UNCHANGED << minhook_init_once, m_func, m_replacement, mhInitialized,
                    initCalls, installed, installedOn >>

\* HardHook::setupInterface(unkn, funcoffset, replacement): the diagnostic,
\* the read of the dispatch table, and setup up to the return of MH_CreateHook
setupInterface(h, funcoffset, r) ==
    /\ UNCHANGED << mhAllHooks, vtbl, orphaned >>
    /\ Idle(h)
    /\ ops' = ops + 1
    /\ LET f == vtbl[funcoffset + 1]
           res == MH_CreateHook(f, r, call[h]) IN
          /\ mh' = res.mh
          /\ call' = [call EXCEPT ![h] = res.original]
          /\ status' = [status EXCEPT ![h] = res.status]
          /\ mhCall' = BackendCall("MH_CreateHook", f, res.status)
          /\ ods' = << fods(FmtSetupInterface, << IUnknownObj, funcoffset >>) >>
                       \o Report(FmtCreateFailed, res.status)
          /\ func' = [func EXCEPT ![h] = f]
          /\ replacement' = [replacement EXCEPT ![h] = r]
    /\ pc' = [pc EXCEPT ![h] = "enable"]
    /\ op' = Op("setupInterface", FALSE)
    /\ UNCHANGED << minhook_init_once, m_func, m_replacement, mhInitialized,
                    initCalls, installed, installedOn >>

\* setup, second half: MH_EnableHook(m_func), its report, and the return
setup_MH_EnableHook(h) ==
    /\ UNCHANGED << vtbl, orphaned >>
    /\ pc[h] = "enable"
    /\ \E res \in MH_EnableHook(m_func[h]) :
          /\ mh' = res.mh
          /\ mhAllHooks' = res.allHooks
          /\ mhCall' = BackendCall("MH_EnableHook", m_func[h], res.status)
          /\ ods' = Report(FmtEnableFailed, res.status)
          /\ installed' = [installed EXCEPT
                             ![h] = @ \/ (status[h] = MH_OK /\ res.status = MH_OK)]
          /\ installedOn' = [installedOn EXCEPT
                               ![h] = IF status[h] = MH_OK /\ res.status = MH_OK
                                      THEN func[h] ELSE @]
    /\ status' = [status EXCEPT ![h] = MH_OK]
    /\ func' = [func EXCEPT ![h] = NULL]
    /\ replacement' = [replacement EXCEPT ![h] = NULL]
    /\ pc' = [pc EXCEPT ![h] = "idle"]
    /\ op' = Op("setup", FALSE)
    /\ UNCHANGED << minhook_init_once, hookVars, mhInitialized, initCalls, ops >>

\* ---------------------------------------------------------------- reset
\* reset that also takes the hook's redirection out of the backend
reset_Unhook(h) ==
    /\ UNCHANGED << mhAllHooks, vtbl >>
    /\ orphaned' = orphaned \cup (IF installedOn[h] # NULL THEN {installedOn[h]} ELSE {})
    /\ Idle(h)
    /\ ops' = ops + 1
    /\ m_func' = [m_func EXCEPT ![h] = NULL]
    /\ m_replacement' = [m_replacement EXCEPT ![h] = NULL]
    /\ call' = [call EXCEPT ![h] = NULL]
    /\ installed' = [installed EXCEPT ![h] = FALSE]
    /\ installedOn' = [installedOn EXCEPT ![h] = NULL]
    /\ op' = Op("reset", FALSE)
    /\ mhCall' = NoCall
    /\ ods' = << >>
    /\ mh' = [f \in Funcs |-> IF f = m_func[h] THEN NoEntry ELSE mh[f]]
    /\ UNCHANGED << minhook_init_once, pc, func, replacement, status, mhInitialized, initCalls >>

\* HardHook::reset()
reset(h) ==
    /\ UNCHANGED << mhAllHooks, vtbl >>
    /\ orphaned' = orphaned \cup (IF installedOn[h] # NULL THEN {installedOn[h]} ELSE {})
    /\ Idle(h)
    /\ ops' = ops + 1
    /\ m_func' = [m_func EXCEPT ![h] = NULL]
    /\ m_replacement' = [m_replacement EXCEPT ![h] = NULL]
    /\ call' = [call EXCEPT ![h] = NULL]
    /\ installed' = [installed EXCEPT ![h] = FALSE]
    /\ installedOn' = [installedOn EXCEPT ![h] = NULL]
    /\ op' = Op("reset", FALSE)
    /\ mhCall' = NoCall
    /\ ods' = << >>
    /\ UNCHANGED << minhook_init_once, pc, func, replacement, status, backendVars >>

\* ------------------------------------------------------ inject / restore
\* a forced toggle: one backend call on m_func and its report
Toggle(h, results, fn, fmt) ==
    \E res \in results :
       /\ mh' = res.mh
       /\ mhAllHooks' = res.allHooks
       /\ mhCall' = BackendCall(fn, m_func[h], res.status)
       /\ ods' = Report(fmt, res.status)

inject(h, force) ==
    /\ UNCHANGED << vtbl, orphaned >>
    /\ Idle(h)
    /\ ops' = ops + 1
    /\ IF ~force
       THEN /\ mhCall' = NoCall
            /\ ods' = << >>
            /\ UNCHANGED << mh, mhAllHooks >>
       ELSE Toggle(h, MH_EnableHook(m_func[h]), "MH_EnableHook", FmtInjectFailed)
    /\ op' = Op("inject", force)
    /\ UNCHANGED << minhook_init_once, hookVars, pc, func, replacement, status,
                    mhInitialized, initCalls, installed, installedOn >>

\* restore with the force parameter ignored
restore_IgnoreForce(h, force) ==
    /\ UNCHANGED << vtbl, orphaned >>
    /\ Idle(h)
    /\ ops' = ops + 1
    /\ Toggle(h, MH_DisableHook(m_func[h]), "MH_DisableHook", FmtRestoreFailed)
    /\ op' = Op("restore", force)
    /\ UNCHANGED << minhook_init_once, hookVars, pc, func, replacement, status,
                    mhInitialized, initCalls, installed, installedOn >>

\* restore that takes the redirection out of the backend instead of disabling it
restore_RemoveHook(h, force) ==
    /\ UNCHANGED << vtbl, mhAllHooks, orphaned >>
    /\ Idle(h)
    /\ ops' = ops + 1
    /\ IF ~force
       THEN /\ mhCall' = NoCall
            /\ ods' = << >>
            /\ UNCHANGED mh
       ELSE /\ mh' = [f \in Funcs |-> IF f = m_func[h] THEN NoEntry ELSE mh[f]]
            /\ mhCall' = BackendCall("MH_DisableHook", m_func[h], MH_OK)
            /\ ods' = << >>
    /\ op' = Op("restore", force)
    /\ UNCHANGED << minhook_init_once, hookVars, pc, func, replacement, status,
                    mhInitialized, initCalls, installed, installedOn >>

\* HardHook::restore(force)
restore(h, force) ==
    /\ UNCHANGED << vtbl, orphaned >>
    /\ Idle(h)
    /\ ops' = ops + 1
    /\ IF ~force
       THEN /\ mhCall' = NoCall
            /\ ods' = << >>
            /\ UNCHANGED << mh, mhAllHooks >>
       ELSE Toggle(h, MH_DisableHook(m_func[h]), "MH_DisableHook", FmtRestoreFailed)
    /\ op' = Op("restore", force)
    /\ UNCHANGED << minhook_init_once, hookVars, pc, func, replacement, status,
                    mhInitialized, initCalls, installed, installedOn >>

\* --------------------------------------------------------- print / check
print(h) ==
    /\ UNCHANGED << mhAllHooks, vtbl, orphaned >>
    /\ Idle(h)
    /\ ops' = ops + 1
    /\ ods' = << fods(FmtPrint, << >>) >>
    /\ op' = Op("print", FALSE)
    /\ mhCall' = NoCall
    /\ UNCHANGED << minhook_init_once, hookVars, pc, func, replacement, status,
                    backendVars, installed, installedOn >>

\* check that re-enables the hook's redirection through the backend
check_Reinject(h) ==
    /\ UNCHANGED << vtbl, orphaned >>
    /\ Idle(h)
    /\ ops' = ops + 1
    /\ Toggle(h, MH_EnableHook(m_func[h]), "MH_EnableHook", FmtCheck)
    /\ op' = Op("check", FALSE)
    /\ UNCHANGED << minhook_init_once, hookVars, pc, func, replacement, status,
                    mhInitialized, initCalls, installed, installedOn >>

\* HardHook::check()
check(h) ==
    /\ UNCHANGED << mhAllHooks, vtbl, orphaned >>
    /\ Idle(h)
    /\ ops' = ops + 1
    /\ ods' = << fods(FmtCheck, << >>) >>
    /\ op' = Op("check", FALSE)
    /\ mhCall' = NoCall
    /\ UNCHANGED << minhook_init_once, hookVars, pc, func, replacement, status,
                    backendVars, installed, installedOn >>

\* ----------------------------------------------------------------- Next
Next ==
    \E h \in Hooks :
       \/ HardHook_default(h)
       \/ \E f \in Funcs : HardHook_two(h, f, ReplacementOf(h))
       \/ EnsureMinHookInitialized_init(h)
       \/ HardHook_two_setup(h)
       \/ \E f \in Funcs : setup(h, f, ReplacementOf(h))
       \/ \E k \in Slots : setupInterface(h, k, ReplacementOf(h))
       \/ setup_MH_EnableHook(h)
       \/ reset(h)
       \/ \E force \in BOOLEAN : inject(h, force)
       \/ \E force \in BOOLEAN : restore(h, force)
       \/ print(h)
       \/ check(h)

Spec == Init /\ [][Next]_vars

\* ------------------------------------------------------------------------
\* Properties
\* ------------------------------------------------------------------------
\* the step of hook h that returns from MH_CreateHook inside setup
CreateReturns(h) == pc[h] # "enable" /\ pc'[h] = "enable"
\* the step of hook h that makes setup's MH_EnableHook call and returns from setup
SetupReturns(h) == pc[h] = "enable" /\ pc'[h] = "idle"
\* MH_Initialize has run and has not initialised the backend
InitFailed == initCalls > 0 /\ ~mhInitialized
\* the thread driving hook h is past EnsureMinHookInitialized
PastEnsure(h) == pc[h] \in {"create", "enable", "idle"}
\* some thread is inside MH_Initialize's caller, between the compare-exchange and the call
Initializing == \E h \in Hooks : pc[h] \in {"init_d", "init_2"}

\* C1: however many hooks are constructed, by either constructor and in any
\* interleaving, MH_Initialize is invoked exactly once: never before the
\* compare-exchange is won, once as soon as the winner has made the call, and
\* never again.
C1_InitializeExactlyOnce ==
    initCalls = IF minhook_init_once = 1 /\ ~Initializing THEN 1 ELSE 0

\* every hook is constructed, and MH_Initialize has been called once
C1_Witness ==
    /\ \A h \in Hooks : PastEnsure(h)
    /\ initCalls = 1

\* C2: no thread is past EnsureMinHookInitialized (at the backend calls of
\* setup, or back in its caller) before the one MH_Initialize call has returned.
C2_NoReturnBeforeInitialize ==
    \A h \in Hooks : PastEnsure(h) => initCalls >= 1

\* C3: when both MH_CreateHook and MH_EnableHook of a setup(func, replacement)
\* return MH_OK, the backend holds an enabled redirection from func to
\* replacement and call is the trampoline the backend made for func.
C3_SetupOkInstallsEnabledHook ==
    [][\A h \in Hooks :
          (SetupReturns(h) /\ status[h] = MH_OK /\ mhCall'.status = MH_OK)
          => /\ mh'[func[h]].created
             /\ mh'[func[h]].enabled
             /\ mh'[func[h]].detour = replacement[h]
             /\ call'[h] = mh'[func[h]].trampoline]_vars

\* C4: the MH_EnableHook call of setup is made on the address that was passed
\* to MH_CreateHook in the same setup call.
C4_EnableTargetIsCreateTarget ==
    [][\A h \in Hooks :
          SetupReturns(h)
          => mhCall'.fn = "MH_EnableHook" /\ mhCall'.target = func[h]]_vars

\* C5: between operations, call is non-null exactly when a setup on the hook
\* has completed with both steps ok and reset has not been called since.
C5_TrampolineIffInstalled ==
    \A h \in Hooks : pc[h] = "idle" => ((call[h] # NULL) <=> installed[h])

\* C6: a setup whose MH_CreateHook returns a non-success status leaves the
\* backend's registry as it was: neither the failed create nor the rest of
\* that setup call creates, enables or disables a redirection.
C6_FailedCreateLeavesBackend ==
    [][\A h \in Hooks :
          /\ (CreateReturns(h) /\ status'[h] # MH_OK) => mh' = mh
          /\ (SetupReturns(h) /\ status[h] # MH_OK) => mh' = mh]_vars

\* C7: a setup by hook b on a target that already has a redirection gets
\* MH_ERROR_ALREADY_CREATED from MH_CreateHook, reports that status, and leaves
\* the trampoline field of every other hook and the backend's entry for the
\* target as they were.
C7_SetupOnHookedTarget ==
    [][\A b \in Hooks :
          (CreateReturns(b) /\ mh[func'[b]].created)
          => /\ status'[b] = MH_ERROR_ALREADY_CREATED
             /\ mhCall'.status = MH_ERROR_ALREADY_CREATED
             /\ Len(ods') >= 1
             /\ ods'[Len(ods')].fmt = FmtCreateFailed
             /\ ods'[Len(ods')].args = << "MH_ERROR_ALREADY_CREATED" >>
             /\ \A a \in Hooks \ {b} : call'[a] = call[a]
             /\ mh'[func'[b]] = mh[func'[b]]]_vars

\* hook b has just been refused a target whose trampoline hook a holds
C7_Witness ==
    \E a, b \in Hooks :
       /\ a # b
       /\ pc[b] = "enable"
       /\ mhCall.fn = "MH_CreateHook"
       /\ status[b] = MH_ERROR_ALREADY_CREATED
       /\ mh[func[b]].created
       /\ call[a] = mh[func[b]].trampoline
       /\ call[b] # mh[func[b]].trampoline

\* C8: when hook h runs MH_CreateHook on a target while another hook g is
\* inside a setup on the same target that did not find it hooked already, g's
\* create has succeeded, h's gets MH_ERROR_ALREADY_CREATED, the backend holds
\* the one redirection, and only g holds its trampoline.
C8_SameTargetRace ==
    [][\A g, h \in Hooks :
          (/\ g # h
           /\ ~InitFailed
           /\ pc[g] = "enable"
           /\ status[g] # MH_ERROR_ALREADY_CREATED
           /\ CreateReturns(h)
           /\ func'[h] = func[g])
          => /\ status[g] = MH_OK
             /\ status'[h] = MH_ERROR_ALREADY_CREATED
             /\ mh'[func[g]].created
             /\ call'[g] = mh'[func[g]].trampoline
             /\ call'[h] # mh'[func[g]].trampoline]_vars

\* C9: while another hook g is in a two-argument construction or a setup on a
\* different target, a setup by hook h on a target without a redirection
\* succeeds: its create returns ok with the target redirected to h's
\* replacement and h's call the trampoline made for that target, and the setup
\* returns with the target enabled.
C9_DifferentTargetsIndependent ==
    [][\A g, h \in Hooks :
          (g # h /\ ~InitFailed /\ pc[g] \in {"init_2", "create", "enable"})
          => /\ (CreateReturns(h) /\ func[g] # func'[h] /\ ~mh[func'[h]].created)
                => /\ status'[h] = MH_OK
                   /\ mh'[func'[h]].created
                   /\ mh'[func'[h]].detour = replacement'[h]
                   /\ call'[h] = mh'[func'[h]].trampoline
             /\ (SetupReturns(h) /\ func[g] # func[h] /\ status[h] = MH_OK)
                => mh'[func[h]].enabled]_vars

\* C10: inject(false) and restore(false) make no backend call, emit no
\* diagnostic, and leave every hook's m_func, m_replacement and call and the
\* backend as they were, whatever state the hook is in.
C10_UnforcedToggleIsNoOp ==
    [][(op'.name \in {"inject", "restore"} /\ ~op'.force)
          => /\ mhCall' = NoCall
             /\ ods' = << >>
             /\ UNCHANGED << m_func, m_replacement, call, mh, mhInitialized,
                             initCalls, minhook_init_once >>]_vars

\* restore(false) has just returned on an installed hook whose target is redirected
C10_Witness ==
    /\ op.name = "restore"
    /\ ~op.force
    /\ \E h \in Hooks :
          /\ pc[h] = "idle"
          /\ installed[h]
          /\ m_func[h] \in Funcs
          /\ mh[m_func[h]].enabled
          /\ call[h] = mh[m_func[h]].trampoline

\* C11: on a hook whose setup on a target completed with both steps ok (and
\* that has not been reset), an inject(true) -- the step that ends the sequence
\* inject(true), restore(true), inject(true) -- leaves that target's
\* redirection enabled in the backend and the hook's call as it was.
C11_ToggleSequenceEndsEnabled ==
    [][\A h \in Hooks :
          (inject(h, TRUE) /\ installedOn[h] # NULL)
          => /\ mh'[installedOn[h]].enabled
             /\ call'[h] = call[h]]_vars

\* C12: on a hook whose setup on a target completed with both steps ok (and
\* that has not been reset), m_func is that target, and inject(true) and
\* restore(true) make their backend call on that target.
C12_ToggleTargetIsInstalledTarget ==
    [][\A h \in Hooks :
          ((inject(h, TRUE) \/ restore(h, TRUE)) /\ installedOn[h] # NULL)
          => /\ m_func[h] = installedOn[h]
             /\ mhCall'.fn \in {"MH_EnableHook", "MH_DisableHook"}
             /\ mhCall'.target = installedOn[h]]_vars

\* C13: reset() sets m_func, m_replacement and call of one hook to NULL, leaves
\* the fields of the other hooks alone, makes no backend call and emits no
\* diagnostic; the backend's entries (created, enabled, detour, trampoline of
\* every function) and its initialisation are the same after it as before.
C13_ResetClearsFieldsOnly ==
    [][op'.name = "reset"
          => /\ mhCall' = NoCall
             /\ ods' = << >>
             /\ UNCHANGED << mh, mhInitialized, initCalls, minhook_init_once >>
             /\ \E h \in Hooks :
                   /\ m_func'[h] = NULL
                   /\ m_replacement'[h] = NULL
                   /\ call'[h] = NULL
                   /\ \A g \in Hooks \ {h} :
                         /\ m_func'[g] = m_func[g]
                         /\ m_replacement'[g] = m_replacement[g]
                         /\ call'[g] = call[g]]_vars

\* reset has just returned on a hook whose target is still redirected to the
\* hook's replacement
C13_Witness ==
    /\ op.name = "reset"
    /\ \E h \in Hooks :
          /\ pc[h] = "idle"
          /\ m_func[h] = NULL /\ m_replacement[h] = NULL /\ call[h] = NULL
          /\ \E f \in Funcs :
                /\ mh[f].created
                /\ mh[f].enabled
                /\ mh[f].detour = ReplacementOf(h)

\* C14: setupInterface(unkn, k, replacement) first emits the diagnostic naming
\* unkn and k, then makes one backend call, MH_CreateHook on the function in
\* slot k of the object's dispatch table and with the replacement it was
\* given; the backend entry of every other function and the dispatch table
\* are left as they were.
C14_SetupInterfaceHooksSlot ==
    [][op'.name = "setupInterface"
          => \E k \in Slots :
                /\ Len(ods') >= 1
                /\ ods'[1] = fods(FmtSetupInterface, << IUnknownObj, k >>)
                /\ \A i \in 2 .. Len(ods') : ods'[i].fmt = FmtCreateFailed
                /\ mhCall'.fn = "MH_CreateHook"
                /\ mhCall'.target = vtbl[k + 1]
                /\ \A f \in Funcs \ {vtbl[k + 1]} : mh'[f] = mh[f]
                /\ mhCall'.status = MH_OK
                   => /\ mh'[vtbl[k + 1]].created
                      /\ \E h \in Hooks : mh'[vtbl[k + 1]].detour = replacement'[h]
                /\ vtbl' = vtbl]_vars

\* setupInterface has just created the redirection of the function in slot 1
\* while the function in slot 0 has none
C14_Witness ==
    /\ op.name = "setupInterface"
    /\ mhCall = BackendCall("MH_CreateHook", vtbl[2], MH_OK)
    /\ ods = << fods(FmtSetupInterface, << IUnknownObj, 1 >>) >>
    /\ mh[vtbl[2]].created
    /\ ~mh[vtbl[1]].created

\* C15: a step that makes a backend call (MH_Initialize, MH_CreateHook,
\* MH_EnableHook, MH_DisableHook) whose status is not MH_OK ends with a
\* diagnostic naming that status; one whose status is MH_OK emits no failure
\* message.
C15_EveryFailureReported ==
    [][mhCall'.fn # "none"
          => IF mhCall'.status # MH_OK
             THEN /\ Len(ods') >= 1
                  /\ ods'[Len(ods')].args = << minhook_status_string(mhCall'.status) >>
             ELSE \A i \in 1 .. Len(ods') : ods'[i].fmt = FmtSetupInterface]_vars

\* C16: print() and check() emit their one diagnostic and do nothing else: no
\* backend call, and m_func, m_replacement and call of every hook and the
\* backend are left as they were, whatever state the hook is in.
C16_PrintCheckOnlyReport ==
    [][op'.name \in {"print", "check"}
          => /\ mhCall' = NoCall
             /\ ods' = << fods(IF op'.name = "print" THEN FmtPrint ELSE FmtCheck, << >>) >>
             /\ UNCHANGED << m_func, m_replacement, call, mh, mhInitialized,
                             initCalls, minhook_init_once >>]_vars

\* check has just returned on an installed hook whose target is redirected
C16_Witness ==
    /\ op.name = "check"
    /\ ods = << fods(FmtCheck, << >>) >>
    /\ \E h \in Hooks :
          /\ pc[h] = "idle"
          /\ installed[h]
          /\ m_func[h] \in Funcs
          /\ mh[m_func[h]].enabled
          /\ call[h] = mh[m_func[h]].trampoline

\* C17: no step of any hook operation takes a redirection out of the backend,
\* un-initialises the backend, or sets the init-once flag back: a function
\* with a backend entry keeps it (with its detour and trampoline), an
\* initialised backend stays initialised, and minhook_init_once, once 1, stays 1.
C17_BackendOnlyGrows ==
    [][/\ \A f \in Funcs :
             mh[f].created => /\ mh'[f].created
                              /\ mh'[f].detour = mh[f].detour
                              /\ mh'[f].trampoline = mh[f].trampoline
       /\ mhInitialized => mhInitialized'
       /\ minhook_init_once = 1 => minhook_init_once' = 1]_vars

\* a restore(true) has just disabled redirections, among them one made for a
\* hook that does not name it in m_func (any more): its entry is still there
C17_Witness ==
    /\ op.name = "restore"
    /\ op.force
    /\ mhCall.fn = "MH_DisableHook"
    /\ mhCall.status = MH_OK
    /\ minhook_init_once = 1
    /\ mhInitialized
    /\ \E h \in Hooks, f \in Funcs :
          /\ pc[h] = "idle"
          /\ m_func[h] = NULL
          /\ mh[f].created
          /\ ~mh[f].enabled
          /\ mh[f].detour = ReplacementOf(h)

\* C18: once a hook whose setup on target T completed with both steps ok has
\* been reset, no hook holds the trampoline of T in call and none gets it
\* again: every later MH_CreateHook on T, from setup, setupInterface or the
\* two-argument constructor of any hook, returns MH_ERROR_ALREADY_CREATED and
\* leaves the caller's call as it was, and no other step writes it either.
C18_NoTrampolineAfterReset ==
    [][/\ \A T \in orphaned' : \A g \in Hooks : call'[g] # Trampoline(T)
       /\ \A T \in orphaned :
             \A b \in Hooks :
                (CreateReturns(b) /\ func'[b] = T)
                => /\ status'[b] = MH_ERROR_ALREADY_CREATED
                   /\ mhCall' = BackendCall("MH_CreateHook", T, MH_ERROR_ALREADY_CREATED)
                   /\ call'[b] = call[b]]_vars

\* a hook installed on a target has been reset, and a later setup on that
\* target has just been refused by MH_CreateHook
C18_Witness ==
    \E b \in Hooks :
       /\ pc[b] = "enable"
       /\ func[b] \in orphaned
       /\ mhCall = BackendCall("MH_CreateHook", func[b], MH_ERROR_ALREADY_CREATED)
       /\ status[b] = MH_ERROR_ALREADY_CREATED
       /\ call[b] # Trampoline(func[b])

====
